---- MODULE Spec2Model ----
(***************************************************************************)
(* News impact analyzer: the signal extraction and aggregation of          *)
(* dashboard.py, the text normalisation of preprocessor.py and the two     *)
(* pipeline entry points of pipeline.py.                                   *)
(*                                                                         *)
(* Text is a sequence of one-character strings, so that the regular        *)
(* expressions of the code are computed character by character.            *)
(***************************************************************************)
EXTENDS Integers, Sequences, FiniteSets, TLC

VARIABLES
    \* extract_valid_signals (dashboard.py)
    articles, confidence_threshold, signals, ex_i, ex_log, ex_pc,
    \* score_tickers and the ranking step (dashboard.py)
    sc_signals, sc_i, ticker_scores, scored_tickers, df_rows,
    bullish_df, bearish_df, sc_pc,
    \* clean_article_content applied to its own output (preprocessor.py)
    cl_text, cl_once, cl_twice, cl_pc,
    \* preprocess_articles (preprocessor.py)
    pp_articles, processed_articles, pp_i, pp_pc,
    \* run_fetch_pipeline (pipeline.py)
    news_api_key, us_articles, unique_articles, seen_urls, fe_i, fetch_ret, fe_pc,
    \* run_analysis_pipeline (pipeline.py)
    llm_provider, api_key, file_articles, analyzed_articles, an_i,
    oracle_log, an_ret, an_pc,
    \* the two JSON documents on disk
    preprocessed_file, analyzed_file,
    \* successive runs of the two pipelines: the latest run, the number of
    \* runs made, and whether a fetch run has returned True
    last_run, runs_done, fetch_succeeded

exVars == <<articles, confidence_threshold, signals, ex_i, ex_log, ex_pc>>
scVars == <<sc_signals, sc_i, ticker_scores, scored_tickers, df_rows,
            bullish_df, bearish_df, sc_pc>>
clVars == <<cl_text, cl_once, cl_twice, cl_pc>>
ppVars == <<pp_articles, processed_articles, pp_i, pp_pc>>
feVars == <<news_api_key, us_articles, unique_articles, seen_urls, fe_i,
            fetch_ret, fe_pc>>
anVars == <<llm_provider, api_key, file_articles, analyzed_articles, an_i,
            oracle_log, an_ret, an_pc>>
fileVars == <<preprocessed_file, analyzed_file>>
runVars == <<last_run, runs_done, fetch_succeeded>>
vars == <<exVars, scVars, clVars, ppVars, feVars, anVars, fileVars, runVars>>

(***************************************************************************)
(* Bounds of the model.                                                    *)
(***************************************************************************)
MaxArticles == 2
MaxSignals == 4
MaxFetched == 3
MaxRaw == 3
MaxProcessed == 2
MaxSegments == 3
MaxRunFetched == 2
MaxRuns == 4

(***************************************************************************)
(* Characters and character classes of Python's re module.                 *)
(***************************************************************************)
UpperChars == {"A", "B"}
LowerChars == {"a", "c", "h", "r", "s", "x"}
PunctChars == {"[", "+", "]"}
DigitChars == {"1", "2"}
SpaceChars == {" ", "\n", "\t"}

IsUpper(c) == c \in UpperChars
IsDigit(c) == c \in DigitChars
IsSpace(c) == c \in SpaceChars
IsWord(c) == c \in UpperChars \cup LowerChars \cup DigitChars \cup {"_"}

\* True iff position p of s holds a word character (positions outside s do not).
WordAt(s, p) == p >= 1 /\ p <= Len(s) /\ IsWord(s[p])

\* \b between positions p-1 and p of s.
Boundary(s, p) == WordAt(s, p - 1) # WordAt(s, p)

\* Number of consecutive [A-Z] characters of s from position p, at most n.
RECURSIVE UpperRun(_, _, _)
UpperRun(s, p, n) ==
    IF n = 0 \/ p > Len(s) \/ ~IsUpper(s[p]) THEN 0
    ELSE 1 + UpperRun(s, p + 1, n - 1)

\* {1,5} of the ticker pattern.
TokenLimit == 5

\* Length of the match of \b[A-Z]{1,5}\b that starts at p, 0 when there is
\* none: the greedy repetition backs off until the closing \b holds.
RECURSIVE BackOff(_, _, _)
BackOff(s, p, k) ==
    IF k = 0 THEN 0
    ELSE IF Boundary(s, p + k) THEN k
    ELSE BackOff(s, p, k - 1)

MatchLenAlt(s, p) ==
    IF ~Boundary(s, p) THEN 0
    ELSE UpperRun(s, p, TokenLimit)

MatchLen(s, p) ==
    IF ~Boundary(s, p) THEN 0
    ELSE BackOff(s, p, UpperRun(s, p, TokenLimit))

\* re.findall(r'\b[A-Z]{1,5}\b', s): the non-overlapping matches, scanning
\* left to right from position p.
RECURSIVE FindAll(_, _)
FindAll(s, p) ==
    IF p > Len(s) THEN <<>>
    ELSE LET k == MatchLen(s, p)
         IN  IF k > 0 THEN <<SubSeq(s, p, p + k - 1)>> \o FindAll(s, p + k)
             ELSE FindAll(s, p + 1)

(***************************************************************************)
(* The ticker registry (ticker_validator.get_ticker_list): the lines of    *)
(* the cache file, whatever they are.                                      *)
(***************************************************************************)
VALID_TICKERS ==
    { <<"A">>, <<"A", "B">>, <<"B", "B", "B", "B", "B">>,
      <<"A", "A", "A", "A", "A", "A">> }

(***************************************************************************)
(* Analyses as extract_valid_signals reads them.  present is the           *)
(* truthiness of article.get('analysis'); the other fields are the keys    *)
(* of the JSON object, absent keys being flagged.                          *)
(***************************************************************************)
Str(t) == [is_str |-> TRUE, text |-> t]
NonStr == [is_str |-> FALSE, text |-> <<>>]

EntityLists ==
    { <<>>,
      << Str(<<"A", "B">>) >>,
      << Str(<<"A", " ", "B">>) >>,
      << Str(<<"B", "A">>), Str(<<"A", "B", " ", "a">>) >>,
      << NonStr, Str(<<"a", "A", "B">>), Str(<<"A", "1">>) >>,
      << Str(<<"A", "A", "A", "A", "A", "A">>) >>,
      << Str(<<"B", "B", "B", "B", "B", " ", "A">>) >>,
      << Str(<<"A", " ", "A">>), Str(<<"A", "B">>) >> }

RepeatList == << Str(<<"A", " ", "A">>), Str(<<"A", "B">>) >>

Sentiments == {"Positive", "Negative", "Neutral", "None", "Bullish"}

Analysis(p, e, hc, c, s, el) ==
    [present |-> p, has_error |-> e, has_conf |-> hc, confidence_score |-> c,
     sentiment |-> s, affected_entities |-> el]

AnalysisDomain ==
    { Analysis(FALSE, FALSE, FALSE, 0, "None", <<>>),
      Analysis(TRUE, TRUE, FALSE, 0, "None", <<>>),
      Analysis(TRUE, TRUE, TRUE, 5, "Positive", RepeatList) }
    \cup { Analysis(TRUE, FALSE, TRUE, c, "Positive", RepeatList) : c \in 0..6 }
    \cup { Analysis(TRUE, FALSE, FALSE, 0, "Positive", RepeatList) }
    \cup { Analysis(TRUE, FALSE, TRUE, 3, s, el) :
              s \in {"Positive", "Negative"}, el \in EntityLists }
    \cup { Analysis(TRUE, FALSE, TRUE, 3, s, RepeatList) : s \in Sentiments }

Thresholds == 1..5

RECURSIVE SeqsUpTo(_, _)
SeqsUpTo(S, n) ==
    IF n = 0 THEN {<<>>}
    ELSE LET shorter == SeqsUpTo(S, n - 1)
         IN  shorter \cup { Append(q, x) : q \in shorter, x \in S }

(***************************************************************************)
(* extract_valid_signals                                                   *)
(***************************************************************************)
\* analysis.get('confidence_score', 0)
ConfidenceOf(a) == IF a.has_conf THEN a.confidence_score ELSE 0

ConfidenceSkipAbove(a, threshold) == ConfidenceOf(a) <= threshold

\* line 42: the confidence check
ConfidenceSkip(a, threshold) == ConfidenceOf(a) < threshold

\* line 41
AnalysisSkipNoError(a) == ~a.present

AnalysisSkip(a) == ~a.present \/ a.has_error

\* line 44
SentimentSkip(a) == a.sentiment \notin {"Positive", "Negative"}

\* lines 48-50: the registered candidates of one entity string, in order
RECURSIVE KeepValid(_, _)
KeepValid(tokens, sentiment) ==
    IF tokens = <<>> THEN <<>>
    ELSE LET rest == KeepValid(Tail(tokens), sentiment)
         IN  IF Head(tokens) \in VALID_TICKERS
             THEN <<[ticker |-> Head(tokens), sentiment |-> sentiment]>> \o rest
             ELSE rest

\* lines 45-50: the signals of one article's affected_entities
RECURSIVE EntitySignals(_, _)
EntitySignals(entities, sentiment) ==
    IF entities = <<>> THEN <<>>
    ELSE LET entity == Head(entities)
             here == IF entity.is_str
                     THEN KeepValid(FindAll(entity.text, 1), sentiment)
                     ELSE <<>>
         IN  here \o EntitySignals(Tail(entities), sentiment)

ExtractInit ==
    /\ articles \in SeqsUpTo(AnalysisDomain, MaxArticles)
    /\ confidence_threshold \in Thresholds
    /\ signals = <<>>
    /\ ex_i = 1
    /\ ex_log = <<>>
    /\ ex_pc = "loop"

\* One iteration of the loop over articles (lines 39-50).  ex_log records
\* which continue statement ended the iteration and how many signals it added.
ExtractArticle ==
    /\ ex_pc = "loop"
    /\ ex_i <= Len(articles)
    /\ LET analysis == articles[ex_i]
           added == EntitySignals(analysis.affected_entities, analysis.sentiment)
       IN  \/ /\ AnalysisSkip(analysis)
              /\ ex_log' = Append(ex_log, [skip |-> "analysis", added |-> 0])
              /\ UNCHANGED signals
           \/ /\ ~AnalysisSkip(analysis)
              /\ ConfidenceSkip(analysis, confidence_threshold)
              /\ ex_log' = Append(ex_log, [skip |-> "confidence", added |-> 0])
              /\ UNCHANGED signals
           \/ /\ ~AnalysisSkip(analysis)
              /\ ~ConfidenceSkip(analysis, confidence_threshold)
              /\ SentimentSkip(analysis)
              /\ ex_log' = Append(ex_log, [skip |-> "sentiment", added |-> 0])
              /\ UNCHANGED signals
           \/ /\ ~AnalysisSkip(analysis)
              /\ ~ConfidenceSkip(analysis, confidence_threshold)
              /\ ~SentimentSkip(analysis)
              /\ signals' = signals \o added
              /\ ex_log' = Append(ex_log, [skip |-> "none", added |-> Len(added)])
    /\ ex_i' = ex_i + 1
    /\ UNCHANGED <<articles, confidence_threshold, ex_pc>>
    /\ UNCHANGED <<scVars, clVars, ppVars, feVars, anVars, fileVars, runVars>>

\* line 51
ExtractReturn ==
    /\ ex_pc = "loop"
    /\ ex_i > Len(articles)
    /\ ex_pc' = "done"
    /\ UNCHANGED <<articles, confidence_threshold, signals, ex_i, ex_log>>
    /\ UNCHANGED <<scVars, clVars, ppVars, feVars, anVars, fileVars, runVars>>

ExtractNext == ExtractArticle \/ ExtractReturn

(***************************************************************************)
(* score_tickers.  A dict is a sequence of entries in insertion order,     *)
(* one entry per key.                                                      *)
(***************************************************************************)
ScoreTickers == { t \in VALID_TICKERS : Len(t) <= TokenLimit }
ScoreSentiments == {"Positive", "Negative", "Neutral"}
SignalDomain == [ticker : ScoreTickers, sentiment : ScoreSentiments]

\* Index of the entry of dict d under key ticker, 0 when there is none.
RECURSIVE IndexOf(_, _, _)
IndexOf(d, ticker, n) ==
    IF n = 0 THEN 0
    ELSE IF d[n].ticker = ticker THEN n
    ELSE IndexOf(d, ticker, n - 1)

\* ticker_scores[ticker]: the defaultdict creates {'positive': 0, 'negative': 0}
\* on the first access of a key (line 55).
Touch(d, ticker) ==
    IF IndexOf(d, ticker, Len(d)) = 0
    THEN Append(d, [ticker |-> ticker, positive |-> 0, negative |-> 0])
    ELSE d

CountSignalSwapped(d, sig) ==
    LET t == Touch(d, sig.ticker)
        k == IndexOf(t, sig.ticker, Len(t))
    IN  IF sig.sentiment = "Positive"
        THEN [t EXCEPT ![k].negative = @ + 1]
        ELSE IF sig.sentiment = "Negative"
        THEN [t EXCEPT ![k].positive = @ + 1]
        ELSE d

\* lines 57-60
CountSignal(d, sig) ==
    LET t == Touch(d, sig.ticker)
        k == IndexOf(t, sig.ticker, Len(t))
    IN  IF sig.sentiment = "Positive"
        THEN [t EXCEPT ![k].positive = @ + 1]
        ELSE IF sig.sentiment = "Negative"
        THEN [t EXCEPT ![k].negative = @ + 1]
        ELSE d

Row(e) ==
    [Ticker |-> e.ticker, positive |-> e.positive, negative |-> e.negative,
     net_score |-> e.positive - e.negative]

RECURSIVE NonZeroKeepAll(_)
NonZeroKeepAll(d) ==
    IF d = <<>> THEN <<>>
    ELSE <<Row(Head(d))>> \o NonZeroKeepAll(Tail(d))

\* lines 61-69: the entries with a non-zero net score, in insertion order
RECURSIVE NonZero(_)
NonZero(d) ==
    IF d = <<>> THEN <<>>
    ELSE LET net_score == Head(d).positive - Head(d).negative
         IN  IF net_score # 0
             THEN <<Row(Head(d))>> \o NonZero(Tail(d))
             ELSE NonZero(Tail(d))

(***************************************************************************)
(* The ranking step of the dashboard (lines 159-162).                      *)
(***************************************************************************)
\* df[df['net_score'] > 0] and df[df['net_score'] < 0]: boolean-mask row
\* selection keeps the row order.
RECURSIVE Positive(_)
Positive(rows) ==
    IF rows = <<>> THEN <<>>
    ELSE IF Head(rows).net_score > 0
    THEN <<Head(rows)>> \o Positive(Tail(rows))
    ELSE Positive(Tail(rows))

RECURSIVE Negative(_)
Negative(rows) ==
    IF rows = <<>> THEN <<>>
    ELSE IF Head(rows).net_score < 0
    THEN <<Head(rows)>> \o Negative(Tail(rows))
    ELSE Negative(Tail(rows))

\* Insertion of row into a list sorted by net_score.
RECURSIVE Insert(_, _, _)
Insert(row, sorted, ascending) ==
    IF sorted = <<>> THEN <<row>>
    ELSE LET before == IF ascending
                       THEN Head(sorted).net_score <= row.net_score
                       ELSE Head(sorted).net_score >= row.net_score
         IN  IF before
             THEN <<Head(sorted)>> \o Insert(row, Tail(sorted), ascending)
             ELSE <<row>> \o sorted

RECURSIVE InsertionSort(_, _)
InsertionSort(rows, ascending) ==
    IF rows = <<>> THEN <<>>
    ELSE Insert(rows[Len(rows)], InsertionSort(SubSeq(rows, 1, Len(rows) - 1), ascending),
                ascending)

\* rows taken in the order perm
Shuffle(rows, perm) == [k \in 1..Len(rows) |-> rows[perm[k]]]

\* DataFrame.sort_values(by='net_score', ascending=...): the default sort is
\* not stable, so rows with equal net_score come out in any order; perm is
\* that order.
SortValues(rows, ascending, perm) == InsertionSort(Shuffle(rows, perm), ascending)

\* line 161
Bullish(rows, perm) == SortValues(Positive(rows), FALSE, perm)

BearishDescending(rows, perm) == SortValues(Negative(rows), FALSE, perm)

\* line 162
Bearish(rows, perm) == SortValues(Negative(rows), TRUE, perm)

ScoreInit ==
    /\ sc_signals \in SeqsUpTo(SignalDomain, MaxSignals)
    /\ sc_i = 1
    /\ ticker_scores = <<>>
    /\ scored_tickers = <<>>
    /\ df_rows = <<>>
    /\ bullish_df = <<>>
    /\ bearish_df = <<>>
    /\ sc_pc = "count"

\* One iteration of the loop over signals (lines 56-60).
ScoreSignal ==
    /\ sc_pc = "count"
    /\ sc_i <= Len(sc_signals)
    /\ ticker_scores' = CountSignal(ticker_scores, sc_signals[sc_i])
    /\ sc_i' = sc_i + 1
    /\ UNCHANGED <<sc_signals, scored_tickers, df_rows, bullish_df, bearish_df, sc_pc>>
    /\ UNCHANGED <<exVars, clVars, ppVars, feVars, anVars, fileVars, runVars>>

\* lines 61-70
ScoreReturn ==
    /\ sc_pc = "count"
    /\ sc_i > Len(sc_signals)
    /\ scored_tickers' = NonZero(ticker_scores)
    /\ sc_pc' = "scored"
    /\ UNCHANGED <<sc_signals, sc_i, ticker_scores, df_rows, bullish_df, bearish_df>>
    /\ UNCHANGED <<exVars, clVars, ppVars, feVars, anVars, fileVars, runVars>>

\* lines 159-162: "if scored_tickers:" and the two sorted frames
RankTickers ==
    /\ sc_pc = "scored"
    /\ scored_tickers # <<>>
    /\ df_rows' = scored_tickers
    /\ \E pb \in Permutations(1..Len(Positive(scored_tickers))) :
          bullish_df' = Bullish(scored_tickers, pb)
    /\ \E pn \in Permutations(1..Len(Negative(scored_tickers))) :
          bearish_df' = Bearish(scored_tickers, pn)
    /\ sc_pc' = "ranked"
    /\ UNCHANGED <<sc_signals, sc_i, ticker_scores, scored_tickers>>
    /\ UNCHANGED <<exVars, clVars, ppVars, feVars, anVars, fileVars, runVars>>

\* lines 194-195: nothing to rank
RankNothing ==
    /\ sc_pc = "scored"
    /\ scored_tickers = <<>>
    /\ sc_pc' = "no_signals"
    /\ UNCHANGED <<sc_signals, sc_i, ticker_scores, scored_tickers, df_rows,
                   bullish_df, bearish_df>>
    /\ UNCHANGED <<exVars, clVars, ppVars, feVars, anVars, fileVars, runVars>>

ScoreNext == ScoreSignal \/ ScoreReturn \/ RankTickers \/ RankNothing

(***************************************************************************)
(* clean_article_content                                                   *)
(***************************************************************************)
\* Greedy \s* and \d* from position p: the first position they do not match.
RECURSIVE SkipSpaces(_, _)
SkipSpaces(s, p) ==
    IF p <= Len(s) /\ IsSpace(s[p]) THEN SkipSpaces(s, p + 1) ELSE p

RECURSIVE SkipDigits(_, _)
SkipDigits(s, p) ==
    IF p <= Len(s) /\ IsDigit(s[p]) THEN SkipDigits(s, p + 1) ELSE p

\* s holds the characters of lit from position p on.
Literal(s, p, lit) ==
    /\ p + Len(lit) - 1 <= Len(s)
    /\ \A k \in 1..Len(lit) : s[p + k - 1] = lit[k]

\* $ without re.MULTILINE: the end of the string, or just before a newline
\* that ends the string.
AtEnd(s, p) == p = Len(s) + 1 \/ (p = Len(s) /\ s[p] = "\n")

\* The match of \s*\[\+\d+\s*chars\]\s*$ that starts at p: the position after
\* it, 0 when there is none.  No repetition of the pattern can give back a
\* character that the next element accepts, so greedy matching is exact.
MarkerEnd(s, p) ==
    LET open == SkipSpaces(s, p)
        digits == SkipDigits(s, open + 2)
        word == SkipSpaces(s, digits)
        close == SkipSpaces(s, word + 6)
    IN  IF /\ Literal(s, open, <<"[", "+">>)
           /\ digits > open + 2
           /\ Literal(s, word, <<"c", "h", "a", "r", "s", "]">>)
           /\ AtEnd(s, close)
        THEN close
        ELSE 0

\* line 14: re.sub(pattern, '', text)
RECURSIVE RemoveMarker(_, _)
RemoveMarker(s, p) ==
    IF p > Len(s) THEN <<>>
    ELSE IF MarkerEnd(s, p) > 0 THEN RemoveMarker(s, MarkerEnd(s, p))
    ELSE <<s[p]>> \o RemoveMarker(s, p + 1)

\* line 17: re.sub(r'\s+', ' ', text)
RECURSIVE CollapseSpaces(_, _)
CollapseSpaces(s, p) ==
    IF p > Len(s) THEN <<>>
    ELSE IF IsSpace(s[p]) THEN <<" ">> \o CollapseSpaces(s, SkipSpaces(s, p))
    ELSE <<s[p]>> \o CollapseSpaces(s, p + 1)

\* line 20: text.strip()
RECURSIVE LStrip(_)
LStrip(s) == IF s # <<>> /\ IsSpace(Head(s)) THEN LStrip(Tail(s)) ELSE s

RECURSIVE RStrip(_)
RStrip(s) ==
    IF s # <<>> /\ IsSpace(s[Len(s)]) THEN RStrip(SubSeq(s, 1, Len(s) - 1)) ELSE s

Strip(s) == RStrip(LStrip(s))

\* lines 7-20
clean_article_content(text) == Strip(CollapseSpaces(RemoveMarker(text, 1), 1))

\* Texts are built from a few segments, the truncation notice among them.
Segments ==
    { <<"x">>, <<" ">>, <<"\n", "\t">>,
      <<" ", "[", "+", "1", " ", "c", "h", "a", "r", "s", "]">>,
      <<"[", "+", "1", "2", "c", "h", "a", "r", "s", "]", "\n">>,
      <<"[", "+", " ", "c", "h", "a", "r", "s", "]">> }

RECURSIVE Concat(_)
Concat(segs) == IF segs = <<>> THEN <<>> ELSE Head(segs) \o Concat(Tail(segs))

Texts == { Concat(segs) : segs \in SeqsUpTo(Segments, MaxSegments) }

CleanInit ==
    /\ cl_text \in Texts
    /\ cl_once = <<>>
    /\ cl_twice = <<>>
    /\ cl_pc = "start"

\* clean_article_content(text)
CleanOnce ==
    /\ cl_pc = "start"
    /\ cl_once' = clean_article_content(cl_text)
    /\ cl_pc' = "once"
    /\ UNCHANGED <<cl_text, cl_twice>>
    /\ UNCHANGED <<exVars, scVars, ppVars, feVars, anVars, fileVars, runVars>>

\* clean_article_content applied to the result
CleanTwice ==
    /\ cl_pc = "once"
    /\ cl_twice' = clean_article_content(cl_once)
    /\ cl_pc' = "twice"
    /\ UNCHANGED <<cl_text, cl_once>>
    /\ UNCHANGED <<exVars, scVars, ppVars, feVars, anVars, fileVars, runVars>>

CleanNext == CleanOnce \/ CleanTwice

(***************************************************************************)
(* preprocess_articles.  content is the value under the key 'content':     *)
(* a string, None (or no such key), or a value of another type.            *)
(***************************************************************************)
Text(t) == [kind |-> "str", text |-> t]
NoneValue == [kind |-> "none", text |-> <<>>]
NumberValue == [kind |-> "number", text |-> <<>>]

\* Truthiness of a content value; the number is non-zero.
Truthy(c) == c.kind = "number" \/ (c.kind = "str" /\ c.text # <<>>)

StringContents ==
    { <<>>, <<" ", "\n">>, <<"x", " ", " ", "x">>,
      <<"[", "+", "1", " ", "c", "h", "a", "r", "s", "]">>,
      <<"x", " ", "[", "+", "1", " ", "c", "h", "a", "r", "s", "]">> }

ContentDomain == {NoneValue, NumberValue} \cup { Text(t) : t \in StringContents }

Urls == {"u1", "u2"}

RawArticle(u, c) == [url |-> u, content |-> c]

Cleaned(article, cleaned_content) ==
    [url |-> article.url, content |-> article.content,
     cleaned_content |-> cleaned_content]

PreprocessOneKeepEmpty(article) ==
    IF ~Truthy(article.content) \/ article.content.kind # "str" THEN <<>>
    ELSE <<Cleaned(article, clean_article_content(article.content.text))>>

\* lines 31-43, one article: what the iteration appends
PreprocessOne(article) ==
    IF ~Truthy(article.content) \/ article.content.kind # "str" THEN <<>>
    ELSE LET cleaned_content == clean_article_content(article.content.text)
         IN  IF cleaned_content # <<>>
             THEN <<Cleaned(article, cleaned_content)>>
             ELSE <<>>

\* lines 23-46
RECURSIVE preprocess_articles(_)
preprocess_articles(list) ==
    IF list = <<>> THEN <<>>
    ELSE PreprocessOne(Head(list)) \o preprocess_articles(Tail(list))

PreprocessInit ==
    /\ pp_articles \in SeqsUpTo({ RawArticle(u, c) : u \in {"u1"}, c \in ContentDomain },
                                MaxRaw)
    /\ processed_articles = <<>>
    /\ pp_i = 1
    /\ pp_pc = "loop"

\* One iteration of the loop over articles (lines 31-43).
PreprocessArticle ==
    /\ pp_pc = "loop"
    /\ pp_i <= Len(pp_articles)
    /\ processed_articles' = processed_articles \o PreprocessOne(pp_articles[pp_i])
    /\ pp_i' = pp_i + 1
    /\ UNCHANGED <<pp_articles, pp_pc>>
    /\ UNCHANGED <<exVars, scVars, clVars, feVars, anVars, fileVars, runVars>>

\* line 46
PreprocessReturn ==
    /\ pp_pc = "loop"
    /\ pp_i > Len(pp_articles)
    /\ pp_pc' = "done"
    /\ UNCHANGED <<pp_articles, processed_articles, pp_i>>
    /\ UNCHANGED <<exVars, scVars, clVars, feVars, anVars, fileVars, runVars>>

PreprocessNext == PreprocessArticle \/ PreprocessReturn

(***************************************************************************)
(* run_fetch_pipeline                                                      *)
(***************************************************************************)
\* A document on disk: absent, or holding a list.
NoFile == [exists |-> FALSE, data |-> <<>>]
File(list) == [exists |-> TRUE, data |-> list]

\* NewsFetcher._clean_articles keeps only the articles with a truthy content.
FetchedDomain == { RawArticle(u, c) : u \in Urls, c \in { d \in ContentDomain : Truthy(d) } }

FetchInit ==
    /\ news_api_key \in BOOLEAN
    /\ us_articles = <<>>
    /\ unique_articles = <<>>
    /\ seen_urls = {}
    /\ fe_i = 1
    /\ fetch_ret = "none"
    /\ fe_pc = "start"

\* line 20: NewsFetcher() raises ValueError without NEWS_API_KEY; nothing
\* in run_fetch_pipeline catches it.
FetchNoKey ==
    /\ fe_pc = "start"
    /\ ~news_api_key
    /\ fe_pc' = "raised"
    /\ UNCHANGED <<news_api_key, us_articles, unique_articles, seen_urls, fe_i, fetch_ret>>
    /\ UNCHANGED <<exVars, scVars, clVars, ppVars, anVars, fileVars, runVars>>

\* lines 20-28: fetch_us_headlines returns the articles of the response, or
\* [] after a request error.
FetchHeadlines ==
    /\ fe_pc = "start"
    /\ news_api_key
    /\ \E fetched \in SeqsUpTo(FetchedDomain, MaxFetched) : us_articles' = fetched
    /\ unique_articles' = <<>>
    /\ seen_urls' = {}
    /\ fe_i' = 1
    /\ fe_pc' = "dedupe"
    /\ UNCHANGED <<news_api_key, fetch_ret>>
    /\ UNCHANGED <<exVars, scVars, clVars, ppVars, anVars, fileVars, runVars>>

DedupeKeepAll(unique, seen, article) == Append(unique, article)

\* lines 30-31
Dedupe(unique, seen, article) ==
    IF article.url \notin seen THEN Append(unique, article) ELSE unique

\* One iteration of the de-duplication loop (lines 29-32).
DedupeArticle ==
    /\ fe_pc = "dedupe"
    /\ fe_i <= Len(us_articles)
    /\ unique_articles' = Dedupe(unique_articles, seen_urls, us_articles[fe_i])
    /\ seen_urls' = seen_urls \cup {us_articles[fe_i].url}
    /\ fe_i' = fe_i + 1
    /\ UNCHANGED <<news_api_key, us_articles, fetch_ret, fe_pc>>
    /\ UNCHANGED <<exVars, scVars, clVars, ppVars, anVars, fileVars, runVars>>

\* lines 35-38: nothing left after preprocessing
FetchEmpty ==
    /\ fe_pc = "dedupe"
    /\ fe_i > Len(us_articles)
    /\ preprocess_articles(unique_articles) = <<>>
    /\ fetch_ret' = "False"
    /\ fe_pc' = "done"
    /\ UNCHANGED <<news_api_key, us_articles, unique_articles, seen_urls, fe_i>>
    /\ UNCHANGED <<exVars, scVars, clVars, ppVars, anVars, fileVars, runVars>>

\* lines 35-44: the preprocessed articles are written
FetchSave ==
    /\ fe_pc = "dedupe"
    /\ fe_i > Len(us_articles)
    /\ preprocess_articles(unique_articles) # <<>>
    /\ preprocessed_file' = File(preprocess_articles(unique_articles))
    /\ fetch_ret' = "True"
    /\ fe_pc' = "done"
    /\ UNCHANGED <<news_api_key, us_articles, unique_articles, seen_urls, fe_i>>
    /\ UNCHANGED <<exVars, scVars, clVars, ppVars, anVars, analyzed_file, runVars>>

FetchNext == FetchNoKey \/ FetchHeadlines \/ DedupeArticle \/ FetchEmpty \/ FetchSave

(***************************************************************************)
(* run_analysis_pipeline.  A JSON value is an object with or without an    *)
(* "error" key and with or without the fields of an analysis, or a value   *)
(* that is no object.                                                      *)
(***************************************************************************)
Json(kind, has_error, error, has_fields) ==
    [json |-> kind, has_error |-> has_error, error |-> error, has_fields |-> has_fields]

\* {"error": str(e)}
ErrorObject(message) == Json("object", TRUE, message, FALSE)

\* What json.loads makes of the provider's reply: has_fields says that the
\* object holds the five fields of an analysis with values of their domains
\* (sentiment one of Positive, Negative, Neutral; confidence_score in 1..5).
ProviderValues ==
    { Json("object", FALSE, "", TRUE),
      Json("object", TRUE, "quota", FALSE),
      Json("object", TRUE, "quota", TRUE),
      Json("object", FALSE, "", FALSE),
      Json("array", FALSE, "", FALSE) }

Messages == {"timeout", "Expecting value"}

\* analyzer.analyze returns a value or raises an Exception with a message.
OracleOutcomes ==
    { [raised |-> FALSE, value |-> v, message |-> ""] : v \in ProviderValues }
    \cup { [raised |-> TRUE, value |-> ErrorObject(m), message |-> m] : m \in Messages }

Providers == {"Ollama", "OpenAI", "Google Gemini", "Claude"}
ApiKeys == {"None", "", "sk"}

\* analyzer.get_analyzer raises ValueError (analyzer.py lines 84-95)
GetAnalyzerRaises(provider, key) ==
    IF provider = "Ollama" THEN FALSE
    ELSE IF provider \in {"OpenAI", "Google Gemini"} THEN key \in {"None", ""}
    ELSE TRUE

CleanedDomain ==
    { Cleaned(RawArticle(u, Text(t)), clean_article_content(t)) :
        u \in Urls, t \in { <<"x", " ", " ", "x">>, <<"x", "\n">> } }

\* What fetch runs leave on disk: nothing, or a non-empty list.
PreprocessedFiles ==
    {NoFile} \cup { File(list) : list \in SeqsUpTo(CleanedDomain, MaxProcessed) \ {<<>>} }

AnalysisInit ==
    /\ llm_provider \in Providers
    /\ api_key \in ApiKeys
    /\ preprocessed_file \in PreprocessedFiles
    /\ analyzed_file = NoFile
    /\ file_articles = <<>>
    /\ analyzed_articles = <<>>
    /\ an_i = 1
    /\ oracle_log = <<>>
    /\ an_ret = "none"
    /\ an_pc = "start"

\* lines 52-54
AnalysisNoFile ==
    /\ an_pc = "start"
    /\ ~preprocessed_file.exists
    /\ an_ret' = "False"
    /\ an_pc' = "done"
    /\ UNCHANGED <<llm_provider, api_key, file_articles, analyzed_articles, an_i, oracle_log>>
    /\ UNCHANGED <<exVars, scVars, clVars, ppVars, feVars, fileVars, runVars>>

\* lines 56-63: get_analyzer raises ValueError
AnalysisBadConfig ==
    /\ an_pc = "start"
    /\ preprocessed_file.exists
    /\ GetAnalyzerRaises(llm_provider, api_key)
    /\ file_articles' = preprocessed_file.data
    /\ an_ret' = "False"
    /\ an_pc' = "done"
    /\ UNCHANGED <<llm_provider, api_key, analyzed_articles, an_i, oracle_log>>
    /\ UNCHANGED <<exVars, scVars, clVars, ppVars, feVars, fileVars, runVars>>

\* lines 56-66
AnalysisStart ==
    /\ an_pc = "start"
    /\ preprocessed_file.exists
    /\ ~GetAnalyzerRaises(llm_provider, api_key)
    /\ file_articles' = preprocessed_file.data
    /\ analyzed_articles' = <<>>
    /\ an_i' = 1
    /\ an_pc' = "loop"
    /\ UNCHANGED <<llm_provider, api_key, oracle_log, an_ret>>
    /\ UNCHANGED <<exVars, scVars, clVars, ppVars, feVars, fileVars, runVars>>

Analyzed(article, analysis) ==
    [url |-> article.url, content |-> article.content,
     cleaned_content |-> article.cleaned_content, analysis |-> analysis]

RecordSkipFailed(analyzed, article, outcome) ==
    IF outcome.raised THEN analyzed
    ELSE Append(analyzed, Analyzed(article, outcome.value))

\* lines 69-75: the record appended for one article
Record(analyzed, article, outcome) ==
    IF outcome.raised
    THEN Append(analyzed, Analyzed(article, ErrorObject(outcome.message)))
    ELSE Append(analyzed, Analyzed(article, outcome.value))

\* One iteration of the loop over the preprocessed articles (lines 67-75).
AnalyzeArticle ==
    /\ an_pc = "loop"
    /\ an_i <= Len(file_articles)
    /\ \E outcome \in OracleOutcomes :
          /\ oracle_log' = Append(oracle_log,
                                  [text |-> file_articles[an_i].cleaned_content,
                                   outcome |-> outcome])
          /\ analyzed_articles' = Record(analyzed_articles, file_articles[an_i], outcome)
    /\ an_i' = an_i + 1
    /\ UNCHANGED <<llm_provider, api_key, file_articles, an_ret, an_pc>>
    /\ UNCHANGED <<exVars, scVars, clVars, ppVars, feVars, fileVars, runVars>>

\* lines 77-81
AnalysisSave ==
    /\ an_pc = "loop"
    /\ an_i > Len(file_articles)
    /\ analyzed_file' = File(analyzed_articles)
    /\ an_ret' = "True"
    /\ an_pc' = "done"
    /\ UNCHANGED <<llm_provider, api_key, file_articles, analyzed_articles, an_i, oracle_log>>
    /\ UNCHANGED <<exVars, scVars, clVars, ppVars, feVars, preprocessed_file, runVars>>

AnalysisNext ==
    AnalysisNoFile \/ AnalysisBadConfig \/ AnalysisStart \/ AnalyzeArticle \/ AnalysisSave

(***************************************************************************)
(* Specifications: one per operation, the others at rest.                  *)
(***************************************************************************)
ExtractIdle ==
    /\ articles = <<>> /\ confidence_threshold = 1 /\ signals = <<>>
    /\ ex_i = 1 /\ ex_log = <<>> /\ ex_pc = "idle"

ScoreIdle ==
    /\ sc_signals = <<>> /\ sc_i = 1 /\ ticker_scores = <<>> /\ scored_tickers = <<>>
    /\ df_rows = <<>> /\ bullish_df = <<>> /\ bearish_df = <<>> /\ sc_pc = "idle"

CleanIdle == cl_text = <<>> /\ cl_once = <<>> /\ cl_twice = <<>> /\ cl_pc = "idle"

PreprocessIdle ==
    pp_articles = <<>> /\ processed_articles = <<>> /\ pp_i = 1 /\ pp_pc = "idle"

FetchIdle ==
    /\ news_api_key = FALSE /\ us_articles = <<>> /\ unique_articles = <<>>
    /\ seen_urls = {} /\ fe_i = 1 /\ fetch_ret = "none" /\ fe_pc = "idle"

AnalysisIdle ==
    /\ llm_provider = "Ollama" /\ api_key = "None" /\ file_articles = <<>>
    /\ analyzed_articles = <<>> /\ an_i = 1 /\ oracle_log = <<>>
    /\ an_ret = "none" /\ an_pc = "idle"

FilesIdle == preprocessed_file = NoFile /\ analyzed_file = NoFile

NoRun ==
    [run |-> "none", ret |-> "none", news_key |-> FALSE, provider |-> "", key |-> "",
     usable |-> 0, had_file |-> FALSE, calls |-> 0]

RunIdle == last_run = NoRun /\ runs_done = 0 /\ fetch_succeeded = FALSE

ExtractStart ==
    /\ ExtractInit /\ ScoreIdle /\ CleanIdle /\ PreprocessIdle /\ FetchIdle
    /\ AnalysisIdle /\ FilesIdle /\ RunIdle

SpecExtract == ExtractStart /\ [][ExtractNext]_vars

ScoreStart ==
    /\ ExtractIdle /\ ScoreInit /\ CleanIdle /\ PreprocessIdle /\ FetchIdle
    /\ AnalysisIdle /\ FilesIdle /\ RunIdle

SpecScore == ScoreStart /\ [][ScoreNext]_vars

CleanStart ==
    /\ ExtractIdle /\ ScoreIdle /\ CleanInit /\ PreprocessIdle /\ FetchIdle
    /\ AnalysisIdle /\ FilesIdle /\ RunIdle

SpecClean == CleanStart /\ [][CleanNext]_vars

PreprocessStart ==
    /\ ExtractIdle /\ ScoreIdle /\ CleanIdle /\ PreprocessInit /\ FetchIdle
    /\ AnalysisIdle /\ FilesIdle /\ RunIdle

SpecPreprocess == PreprocessStart /\ [][PreprocessNext]_vars

FetchStart ==
    /\ ExtractIdle /\ ScoreIdle /\ CleanIdle /\ PreprocessIdle /\ FetchInit
    /\ AnalysisIdle /\ FilesIdle /\ RunIdle

SpecFetch == FetchStart /\ [][FetchNext]_vars

AnalysisBegin ==
    /\ ExtractIdle /\ ScoreIdle /\ CleanIdle /\ PreprocessIdle /\ FetchIdle
    /\ AnalysisInit /\ RunIdle

SpecAnalysis == AnalysisBegin /\ [][AnalysisNext]_vars

(***************************************************************************)
(* Successive runs of the two entry points, each run taken as a whole.     *)
(* The documents on disk are all that one run hands to the next.           *)
(***************************************************************************)
\* lines 27-32: the de-duplication loop over the rest of the fetched list
RECURSIVE DedupeAll(_, _, _)
DedupeAll(list, unique, seen) ==
    IF list = <<>> THEN unique
    ELSE DedupeAll(Tail(list), Dedupe(unique, seen, Head(list)),
                   seen \cup {Head(list).url})

run_fetch_pipeline_write_first(key, fetched, pre) ==
    IF ~key THEN [ret |-> "raised", pre |-> pre]
    ELSE LET processed == preprocess_articles(DedupeAll(fetched, <<>>, {}))
         IN  IF processed = <<>> THEN [ret |-> "False", pre |-> File(processed)]
             ELSE [ret |-> "True", pre |-> File(processed)]

\* pipeline.py lines 14-44: the value returned ("raised" for the ValueError
\* of NewsFetcher() that nothing catches) and preprocessed_articles.json
\* after the run, given NEWS_API_KEY, the fetched articles and the document
\* before the run.
run_fetch_pipeline(key, fetched, pre) ==
    IF ~key THEN [ret |-> "raised", pre |-> pre]
    ELSE LET processed == preprocess_articles(DedupeAll(fetched, <<>>, {}))
         IN  IF processed = <<>> THEN [ret |-> "False", pre |-> pre]
             ELSE [ret |-> "True", pre |-> File(processed)]

\* lines 65-75: the loop over the articles from position k on
RECURSIVE AnalyzeAll(_, _, _, _)
AnalyzeAll(list, outcomes, k, analyzed) ==
    IF k > Len(list) THEN analyzed
    ELSE AnalyzeAll(list, outcomes, k + 1, Record(analyzed, list[k], outcomes[k]))

\* pipeline.py lines 47-81: the value returned, analyzed_articles.json after
\* the run and the number of calls of analyze, given the configuration, the
\* outcome of each call and the two documents before the run.
run_analysis_pipeline(provider, key, outcomes, pre, ana) ==
    IF ~pre.exists THEN [ret |-> "False", ana |-> ana, calls |-> 0]
    ELSE IF GetAnalyzerRaises(provider, key)
    THEN [ret |-> "False", ana |-> ana, calls |-> 0]
    ELSE [ret |-> "True",
          ana |-> File(AnalyzeAll(pre.data, outcomes, 1, <<>>)),
          calls |-> Len(pre.data)]

\* Number of fetched articles whose content is a string with a non-empty
\* normalisation.
Usable(fetched) ==
    Cardinality({ k \in 1..Len(fetched) :
        /\ fetched[k].content.kind = "str"
        /\ clean_article_content(fetched[k].content.text) # <<>> })

\* What the runs fetch: articles whose content is a number, a bare
\* truncation notice or ordinary text, one of them under a second url.
RunFetchedDomain ==
    { a \in FetchedDomain :
        \/ a.url = "u1" /\ a.content.kind = "number"
        \/ a.url = "u1" /\ a.content = Text(<<"[", "+", "1", " ", "c", "h", "a", "r", "s", "]">>)
        \/ a.content = Text(<<"x", " ", " ", "x">>) }

\* What analyze does in the runs: it returns an analysis or an array, or raises.
RunOutcomes ==
    { o \in OracleOutcomes :
        \/ o.raised /\ o.message = "timeout"
        \/ ~o.raised /\ ~o.value.has_error /\ (o.value.has_fields \/ o.value.json = "array") }

\* One run of run_fetch_pipeline.
RunFetch ==
    /\ runs_done < MaxRuns
    /\ \E key \in BOOLEAN, fetched \in SeqsUpTo(RunFetchedDomain, MaxRunFetched) :
          LET r == run_fetch_pipeline(key, fetched, preprocessed_file)
          IN  /\ preprocessed_file' = r.pre
              /\ last_run' = [run |-> "fetch", ret |-> r.ret, news_key |-> key,
                              provider |-> "", key |-> "", usable |-> Usable(fetched),
                              had_file |-> preprocessed_file.exists, calls |-> 0]
              /\ fetch_succeeded' = (fetch_succeeded \/ r.ret = "True")
    /\ runs_done' = runs_done + 1
    /\ UNCHANGED analyzed_file
    /\ UNCHANGED <<exVars, scVars, clVars, ppVars, feVars, anVars>>

\* One run of run_analysis_pipeline.
RunAnalysis ==
    /\ runs_done < MaxRuns
    /\ \E provider \in Providers, key \in ApiKeys,
          outcomes \in [1..Len(preprocessed_file.data) -> RunOutcomes] :
          LET r == run_analysis_pipeline(provider, key, outcomes,
                                         preprocessed_file, analyzed_file)
          IN  /\ analyzed_file' = r.ana
              /\ last_run' = [run |-> "analysis", ret |-> r.ret, news_key |-> FALSE,
                              provider |-> provider, key |-> key, usable |-> 0,
                              had_file |-> preprocessed_file.exists, calls |-> r.calls]
    /\ runs_done' = runs_done + 1
    /\ UNCHANGED <<preprocessed_file, fetch_succeeded>>
    /\ UNCHANGED <<exVars, scVars, clVars, ppVars, feVars, anVars>>

RunsNext == RunFetch \/ RunAnalysis

RunsStart ==
    /\ ExtractIdle /\ ScoreIdle /\ CleanIdle /\ PreprocessIdle /\ FetchIdle
    /\ AnalysisIdle /\ FilesIdle /\ RunIdle

SpecRuns == RunsStart /\ [][RunsNext]_vars

(***************************************************************************)
(* Properties.                                                             *)
(***************************************************************************)
\* A ticker candidate of entity text e: a run of 1 to 5 upper-case letters
\* from position i to position j with no word character on either side.
IsToken(e, i, j) ==
    /\ 1 <= i /\ i <= j /\ j <= Len(e)
    /\ j - i + 1 <= TokenLimit
    /\ \A k \in i..j : e[k] \in UpperChars
    /\ (i = 1 \/ ~IsWord(e[i - 1]))
    /\ (j = Len(e) \/ ~IsWord(e[j + 1]))

\* Start positions of the registered candidates of e.
ListedStarts(e) ==
    { i \in 1..Len(e) : \E j \in i..Len(e) :
        IsToken(e, i, j) /\ SubSeq(e, i, j) \in VALID_TICKERS }

TokenFrom(e, i) == SubSeq(e, i, CHOOSE j \in i..Len(e) : IsToken(e, i, j))

\* The registered candidates of e whose start is in starts, left to right.
RECURSIVE ListedFrom(_, _)
ListedFrom(e, starts) ==
    IF starts = {} THEN <<>>
    ELSE LET i == CHOOSE x \in starts : \A y \in starts : x <= y
         IN  <<TokenFrom(e, i)>> \o ListedFrom(e, starts \ {i})

\* Number of registered candidate occurrences in the entity strings of a.
RECURSIVE ListedCount(_)
ListedCount(entities) ==
    IF entities = <<>> THEN 0
    ELSE (IF Head(entities).is_str THEN Cardinality(ListedStarts(Head(entities).text)) ELSE 0)
         + ListedCount(Tail(entities))

\* An article that passes the three checks.
Qualifies(a, threshold) ==
    /\ a.present /\ ~a.has_error
    /\ a.has_conf /\ a.confidence_score >= threshold
    /\ a.sentiment \in {"Positive", "Negative"}

RECURSIVE ExpectedOfEntities(_, _)
ExpectedOfEntities(entities, sentiment) ==
    IF entities = <<>> THEN <<>>
    ELSE LET e == Head(entities)
             tokens == IF e.is_str THEN ListedFrom(e.text, ListedStarts(e.text)) ELSE <<>>
         IN  [k \in 1..Len(tokens) |-> [ticker |-> tokens[k], sentiment |-> sentiment]]
             \o ExpectedOfEntities(Tail(entities), sentiment)

RECURSIVE ExpectedSignals(_, _, _)
ExpectedSignals(list, n, threshold) ==
    IF n = 0 THEN <<>>
    ELSE ExpectedSignals(list, n - 1, threshold)
         \o (IF Qualifies(list[n], threshold)
             THEN ExpectedOfEntities(list[n].affected_entities, list[n].sentiment)
             ELSE <<>>)

SignalsJustified ==
    /\ \A n \in 1..Len(signals) :
          /\ signals[n].ticker \in VALID_TICKERS
          /\ signals[n].sentiment \in {"Positive", "Negative"}
          /\ \E k \in 1..Len(articles) :
                /\ Qualifies(articles[k], confidence_threshold)
                /\ articles[k].sentiment = signals[n].sentiment
                /\ \E m \in 1..Len(articles[k].affected_entities) :
                      LET e == articles[k].affected_entities[m]
                      IN  /\ e.is_str
                          /\ \E i \in 1..Len(e.text) : \E j \in i..Len(e.text) :
                                IsToken(e.text, i, j) /\ SubSeq(e.text, i, j) = signals[n].ticker
    /\ \A k \in 1..Len(ex_log) :
          (\/ articles[k].has_error
           \/ ~articles[k].present
           \/ articles[k].sentiment \notin {"Positive", "Negative"}
           \/ ListedCount(articles[k].affected_entities) = 0)
          => ex_log[k].added = 0

SignalFromSecondArticle ==
    /\ ex_pc = "done"
    /\ Len(articles) = 2
    /\ articles[1].has_error /\ articles[1].has_conf /\ ex_log[1].skip = "analysis"
    /\ Len(signals) > 0

\* C3: the returned signals are the registered candidate occurrences of the
\* qualifying articles, in article order, then entity order, then position
\* in the entity string, one signal per occurrence.
SignalsInOrder ==
    /\ ex_pc \in {"loop", "done"}
    /\ signals = ExpectedSignals(articles, ex_i - 1, confidence_threshold)
    /\ ex_pc = "done" => ex_i - 1 = Len(articles)

RepeatedTickerCounted ==
    /\ ex_pc = "done"
    /\ Len(articles) = 2
    /\ ex_log[1].added >= 3
    /\ ex_log[2].added >= 1
    /\ signals[1].ticker = signals[2].ticker
    /\ signals[1].sentiment # signals[Len(signals)].sentiment

\* Numbers of Positive and of Negative signals for ticker t among the first
\* n signals.
CountOf(t, sentiment, n) ==
    Cardinality({ k \in 1..n : sc_signals[k].ticker = t /\ sc_signals[k].sentiment = sentiment })

\* C4: every entry of the result has the number of Positive signals of its
\* ticker as positive, the number of Negative ones as negative, and their
\* difference as net_score.
ScoresAreCounts ==
    /\ \A k \in 1..Len(ticker_scores) :
          /\ ticker_scores[k].positive = CountOf(ticker_scores[k].ticker, "Positive", sc_i - 1)
          /\ ticker_scores[k].negative = CountOf(ticker_scores[k].ticker, "Negative", sc_i - 1)
    /\ \A k \in 1..Len(scored_tickers) :
          LET row == scored_tickers[k]
          IN  /\ row.positive = CountOf(row.Ticker, "Positive", Len(sc_signals))
              /\ row.negative = CountOf(row.Ticker, "Negative", Len(sc_signals))
              /\ row.net_score = row.positive - row.negative

ScoredTwoToOne ==
    /\ sc_pc = "scored"
    /\ \E k \in 1..Len(scored_tickers) :
          /\ scored_tickers[k].positive = 2
          /\ scored_tickers[k].negative = 1
          /\ scored_tickers[k].net_score = 1

\* C5: the result has exactly one entry for each ticker whose Positive and
\* Negative counts differ and none for any other ticker; no entry has a
\* net_score of 0.
OnlyNonZeroKept ==
    sc_pc \in {"scored", "ranked", "no_signals"} =>
        /\ \A t \in ScoreTickers :
              Cardinality({ k \in 1..Len(scored_tickers) : scored_tickers[k].Ticker = t })
                = IF CountOf(t, "Positive", Len(sc_signals)) # CountOf(t, "Negative", Len(sc_signals))
                  THEN 1 ELSE 0
        /\ \A k \in 1..Len(scored_tickers) :
              /\ scored_tickers[k].Ticker \in ScoreTickers
              /\ scored_tickers[k].net_score # 0

NetZeroDropped ==
    /\ sc_pc = "scored"
    /\ Len(scored_tickers) = 1
    /\ \E k \in 1..Len(sc_signals) :
          /\ sc_signals[k].ticker # scored_tickers[1].Ticker
          /\ sc_signals[k].sentiment = "Positive"

Sorted(rows, ascending) ==
    \A k \in 1..(Len(rows) - 1) :
        IF ascending THEN rows[k].net_score <= rows[k + 1].net_score
        ELSE rows[k].net_score >= rows[k + 1].net_score

Range(f) == { f[k] : k \in DOMAIN f }

\* C6: bullish holds exactly the entries with net_score > 0 in non-increasing
\* order, bearish exactly those with net_score < 0 in non-decreasing order;
\* the lists are disjoint and together hold every scored ticker once.
RankedLists ==
    sc_pc = "ranked" =>
        /\ Range(bullish_df) = { r \in Range(scored_tickers) : r.net_score > 0 }
        /\ Range(bearish_df) = { r \in Range(scored_tickers) : r.net_score < 0 }
        /\ Sorted(bullish_df, FALSE)
        /\ Sorted(bearish_df, TRUE)
        /\ Range(bullish_df) \cap Range(bearish_df) = {}
        /\ Len(bullish_df) + Len(bearish_df) = Len(scored_tickers)
        /\ \A r \in Range(scored_tickers) :
              Cardinality({ k \in 1..Len(bullish_df) : bullish_df[k].Ticker = r.Ticker })
              + Cardinality({ k \in 1..Len(bearish_df) : bearish_df[k].Ticker = r.Ticker }) = 1

RankedBothSides ==
    /\ sc_pc = "ranked"
    /\ Len(bearish_df) = 2
    /\ bearish_df[1].net_score < bearish_df[2].net_score
    /\ Len(bullish_df) = 1
    /\ scored_tickers[1] = bearish_df[2]

\* Positions of the first occurrence of each url among the first n fetched
\* articles.
FirstOccurrences(n) ==
    { i \in 1..n : \A j \in 1..(i - 1) : us_articles[j].url # us_articles[i].url }

\* out lists the elements of list at the positions of keep, in increasing
\* position.
ListsInOrder(out, list, keep) ==
    /\ Len(out) = Cardinality(keep)
    /\ \E f \in [1..Len(out) -> keep] :
          /\ \A a, b \in 1..Len(out) : a < b => f[a] < f[b]
          /\ \A a \in 1..Len(out) : out[a] = list[f[a]]

\* C7: the de-duplicated list has no two entries with the same url and holds
\* exactly the first occurrence of every url of the input, in input order.
DedupeFirstOccurrences ==
    fe_pc \in {"dedupe", "done"} =>
        /\ \A a, b \in 1..Len(unique_articles) :
              a # b => unique_articles[a].url # unique_articles[b].url
        /\ ListsInOrder(unique_articles, us_articles, FirstOccurrences(fe_i - 1))
        /\ seen_urls = { us_articles[k].url : k \in 1..(fe_i - 1) }
        /\ fe_pc = "done" => fe_i - 1 = Len(us_articles)

DuplicateDropped ==
    /\ fe_pc = "done"
    /\ Len(us_articles) = 3
    /\ Len(unique_articles) = 2
    /\ us_articles[1].url = us_articles[3].url
    /\ us_articles[1] # us_articles[3]

\* Positions among the first n articles whose content is a non-empty string
\* with a non-empty normalisation.
Kept(n) ==
    { i \in 1..n :
        /\ pp_articles[i].content.kind = "str"
        /\ pp_articles[i].content.text # <<>>
        /\ clean_article_content(pp_articles[i].content.text) # <<>> }

\* C8: preprocess_articles returns, in input order, exactly the articles
\* whose content is a non-empty string with a non-empty normalisation, each
\* with that normalisation as its non-empty cleaned_content; the output is
\* never longer than the input.
PreprocessKeepsNonEmpty ==
    pp_pc \in {"loop", "done"} =>
        /\ ListsInOrder([k \in 1..Len(processed_articles) |->
                            RawArticle(processed_articles[k].url, processed_articles[k].content)],
                        pp_articles, Kept(pp_i - 1))
        /\ \A k \in 1..Len(processed_articles) :
              /\ processed_articles[k].cleaned_content # <<>>
              /\ processed_articles[k].content.kind = "str"
              /\ processed_articles[k].cleaned_content
                    = clean_article_content(processed_articles[k].content.text)
        /\ Len(processed_articles) <= Len(pp_articles)
        /\ pp_pc = "done" => pp_i - 1 = Len(pp_articles)

EmptyAfterCleaningDropped ==
    /\ pp_pc = "done"
    /\ Len(pp_articles) = 3
    /\ Len(processed_articles) = 1
    /\ pp_articles[1].content.kind = "str"
    /\ pp_articles[1].content.text # <<>>
    /\ pp_articles[2].content.kind = "number"
    /\ processed_articles[1].cleaned_content # pp_articles[3].content.text

\* C9: clean_article_content applied to its own output returns that output.
CleanIdempotent == cl_pc = "twice" => cl_twice = cl_once

ValidConfiguration ==
    preprocessed_file.exists /\ ~GetAnalyzerRaises(llm_provider, api_key)

\* C10: with a valid configuration the oracle is called once per
\* preprocessed article, in order; the analyzed list has one record per
\* article in the same order, with {"error": message} where the call raised
\* and the returned value elsewhere; the loop always goes on to the next
\* article, and the run writes that list and returns True.
FailureIsolated ==
    ValidConfiguration =>
        /\ an_pc \in {"loop", "done"} =>
              /\ file_articles = preprocessed_file.data
              /\ Len(oracle_log) = an_i - 1
              /\ Len(analyzed_articles) = an_i - 1
              /\ an_i - 1 <= Len(file_articles)
              /\ \A k \in 1..Len(oracle_log) :
                    /\ oracle_log[k].text = file_articles[k].cleaned_content
                    /\ k <= Len(analyzed_articles)
                    /\ analyzed_articles[k].url = file_articles[k].url
                    /\ analyzed_articles[k].content = file_articles[k].content
                    /\ analyzed_articles[k].cleaned_content = file_articles[k].cleaned_content
                    /\ analyzed_articles[k].analysis
                          = IF oracle_log[k].outcome.raised
                            THEN [json |-> "object", has_error |-> TRUE,
                                  error |-> oracle_log[k].outcome.message,
                                  has_fields |-> FALSE]
                            ELSE oracle_log[k].outcome.value
        /\ an_pc = "loop" => ENABLED (AnalyzeArticle \/ AnalysisSave)
        /\ an_pc = "done" =>
              /\ an_ret = "True"
              /\ Len(analyzed_articles) = Len(file_articles)
              /\ analyzed_file = [exists |-> TRUE, data |-> analyzed_articles]

FailureThenSuccess ==
    /\ an_pc = "done"
    /\ an_ret = "True"
    /\ Len(oracle_log) = 2
    /\ oracle_log[1].outcome.raised
    /\ ~oracle_log[2].outcome.raised
    /\ analyzed_file.data[1].analysis.has_error
    /\ analyzed_file.data[2].analysis.has_fields

\* C11: every persisted analysis is exactly one of the two variants: an
\* object with the fields of an analysis and no "error" key, or an object
\* with an "error" key and none of those fields.
ExactlyOneVariant ==
    analyzed_file.exists =>
        \A k \in 1..Len(analyzed_file.data) :
            LET a == analyzed_file.data[k].analysis
            IN  /\ a.json = "object"
                /\ a.has_fields # a.has_error

\* The configuration of the latest analysis run is in error: an unknown
\* provider, or a provider that needs an API key and has none.
ConfigurationError(run) ==
    /\ run.provider # "Ollama"
    /\ (run.provider \in {"OpenAI", "Google Gemini"} => run.key \in {"None", ""})

\* What the latest run returned fits what it was given and what is on disk.
RunOutcome ==
    /\ last_run.run = "fetch" =>
          /\ last_run.ret \in {"True", "False", "raised"}
          /\ last_run.ret = "True" =>
                /\ preprocessed_file.exists
                /\ preprocessed_file.data # <<>>
                /\ Len(preprocessed_file.data) <= last_run.usable
          /\ (~last_run.news_key \/ last_run.usable = 0) => last_run.ret # "True"
          /\ last_run.calls = 0
    /\ last_run.run = "analysis" =>
          /\ last_run.ret \in {"True", "False"}
          /\ last_run.ret = "True" =>
                /\ fetch_succeeded
                /\ analyzed_file.exists
                /\ Len(analyzed_file.data) = Len(preprocessed_file.data)
                /\ last_run.calls = Len(preprocessed_file.data)
          /\ (~last_run.had_file \/ ConfigurationError(last_run)) =>
                /\ last_run.ret = "False"
                /\ last_run.calls = 0
    /\ fetch_succeeded <=> preprocessed_file.exists
    /\ analyzed_file.exists => fetch_succeeded

\* A run writes at most its own document, and none when it fails.
RunWrites ==
    runs_done' = runs_done + 1 =>
        /\ last_run'.ret # "True" => UNCHANGED fileVars
        /\ last_run'.run = "fetch" => analyzed_file' = analyzed_file
        /\ last_run'.run = "analysis" => preprocessed_file' = preprocessed_file

\* C12: in any sequence of runs, a run either writes its document and
\* returns True or fails and leaves both documents as they were; a missing
\* API key, an unknown provider, an empty preprocessing result or a missing
\* preprocessed document fails the run with no call of the oracle and no
\* write; an analysis run returns True only after a fetch run has.
RunsAllOrNothing == []RunOutcome /\ [][RunWrites]_vars

FailedFetchKeepsDocuments ==
    /\ runs_done = 3
    /\ last_run.run = "fetch"
    /\ last_run.ret = "raised"
    /\ preprocessed_file.exists
    /\ analyzed_file.exists
    /\ Len(analyzed_file.data) = 2
====
